---- MODULE Spec2Model ----
(***************************************************************************)
(* State-machine model of the vocabulary bot's dialogue controller:        *)
(* Controller (start_user / clear_user / respond_user), StateManager,      *)
(* MainMenuState, AddCardState, LearningState, CardManager and the         *)
(* DatabaseModel operations they call.                                     *)
(*                                                                         *)
(* A turn is one atomic action.  Inside a turn the handler works on a      *)
(* session: changes become persistent only at model.commit(); leaving the  *)
(* `with session` block closes the session and discards what was not       *)
(* committed.  A handler is therefore modelled as an operator that returns *)
(* the sequence of database snapshots it commits, its reply, and how it    *)
(* ends; the turn action picks the point at which a storage operation      *)
(* fails (or none) and persists the last snapshot committed before it.     *)
(***************************************************************************)
EXTENDS Integers, Sequences, FiniteSets, Bags, TLC

\* ------------------------------------------------------------ constants

CHOICE_COUNT == 4

MAX_LENGTH == 64

\* Cap of failed_count: wrong answers are only fed while it is below.
MaxFailed == 1

\* Number of outcomes of the pseudorandom source drawn per learning start.
NumSeeds == 2

\* The identities known to the transport, and those that send messages.
Users == {1, 2}
Actors == {1}

\* ---------------------------------------------------------------- texts
\* A text is a sequence of one-character strings.

LowerChar(c) ==
    CASE c = "A" -> "a"
      [] c = "D" -> "d"
      [] c = "P" -> "p"
      [] c = "U" -> "u"
      [] c = "X" -> "x"
      [] c = "Z" -> "z"
      [] OTHER -> c

Lower(t) == [i \in 1..Len(t) |-> LowerChar(t[i])]

RECURSIVE LStrip(_)
LStrip(t) == IF t # <<>> /\ Head(t) = " " THEN LStrip(Tail(t)) ELSE t

RECURSIVE RStrip(_)
RStrip(t) ==
    IF t # <<>> /\ t[Len(t)] = " " THEN RStrip(SubSeq(t, 1, Len(t) - 1)) ELSE t

Strip(t) == RStrip(LStrip(t))

\* messages.py: the menu labels (pictogram, blank, capitalised word).
LEARN == <<"@", " ", "U">>
ADD_CARD == <<"+", " ", "D">>
SKIP == <<">", " ", "P">>
DELETE == <<"!", " ", "U">>
FINISH == <<"#", " ", "Z">>

MainMenuLabels == <<LEARN, ADD_CARD>>
LearningMenuLabels == <<SKIP, DELETE, FINISH>>

\* CardManager.preprocess_user_word: strip, reject when too long, lower.
\* ok = FALSE stands for the raised ValueError.
PreprocessOk(text) == Len(Strip(text)) <= MAX_LENGTH

PreprocessUserWord(text) == Lower(Strip(text))

\* ---------------------------------------------------------------- cards

RU == "ru"
EN == "en"

Word(text, language) == [text |-> text, language |-> language]

Card(ru, en) == [ru |-> ru, en |-> en]

\* The default card set seeded for a first-time user (default_cards module).
DefaultCards ==
    << << <<"k", "a">>, <<"a">> >>,
       << <<"k", "b">>, <<"b">> >>,
       << <<"k", "c">>, <<"c">> >>,
       << <<"k", "d">>, <<"d">> >> >>

TooLongText == [i \in 1..(MAX_LENGTH + 1) |-> "q"]

\* Inputs fed to each dialogue state.  The target words typed in the
\* add-card dialogue come in four sets, one per specification: a second
\* card with the text of a default card, and each learning command typed as
\* a translation.
MenuInputs == {LEARN, ADD_CARD, Lower(LEARN), <<"b">>}
RuInputs == {<<" ", "X">>, TooLongText}
EnInputs == {<<" ", "A", " ">>, TooLongText}
EnInputsSkip == {SKIP, TooLongText}
EnInputsDelete == {DELETE, TooLongText}
EnInputsFinish == {FINISH, TooLongText}
LearnInputs == {<<" ", "A", " ">>, <<"b">>, SKIP, DELETE, FINISH, TooLongText}

\* Every card that can exist, in a fixed order (the row order of a query
\* without ORDER BY).
CardUniverse ==
    [i \in 1..Len(DefaultCards) |-> Card(DefaultCards[i][1], DefaultCards[i][2])]
    \o << Card(<<"x">>, <<"a">>),
          Card(<<"x">>, Lower(SKIP)),
          Card(<<"x">>, Lower(DELETE)),
          Card(<<"x">>, Lower(FINISH)) >>

SortedCards(S) == SelectSeq(CardUniverse, LAMBDA c : c \in S)

\* ------------------------------------------------------------- database
\* A database value: one field per table.
\*   userState[u]  the user row's state, "none" when there is no row
\*   userCards[u]  the user_card association rows of u
\*   questions[u]  the learning_question rows of u (with their distractors)
\*   progress[u]   the learning_progress row of u: <<>> or <<record>>
\*   pending[u]    the new_card_progress row of u: <<>> or <<ru word>>
\*   words, cards  the word and card tables, as bags of natural keys

VARIABLES userState, userCards, questions, progress, pending, words, cards,
          last,
          loopPc, loopCards, loopCard, loopChoices,
          workers

\* Bot._create_bot: telebot.TeleBot(token) keeps the library's default,
\* a pool of two worker threads that run the handlers.
Workers == {1, 2}

\* A worker thread that runs no handler.
IdleWorker == [busy |-> FALSE, user |-> 0, text |-> <<>>, question |-> {}, pc |-> "idle"]

dbVars == <<userState, userCards, questions, progress, pending, words, cards>>
loopVars == <<loopPc, loopCards, loopCard, loopChoices>>
vars == <<userState, userCards, questions, progress, pending, words, cards,
          last, loopPc, loopCards, loopCard, loopChoices, workers>>

DB ==
    [userState |-> userState, userCards |-> userCards, questions |-> questions,
     progress |-> progress, pending |-> pending, words |-> words, cards |-> cards]

EmptyDB ==
    [userState |-> [u \in Users |-> "none"],
     userCards |-> [u \in Users |-> {}],
     questions |-> [u \in Users |-> {}],
     progress |-> [u \in Users |-> <<>>],
     pending |-> [u \in Users |-> <<>>],
     words |-> EmptyBag,
     cards |-> EmptyBag]

\* DatabaseModel.user_exists / get_user
user_exists(d, u) == d.userState[u] # "none"

\* DatabaseModel.add_user
add_user(d, u, state) == [d EXCEPT !.userState[u] = state]

\* delete_user on tables without ON DELETE CASCADE.
delete_user_row(d, u) == [d EXCEPT !.userState[u] = "none"]

\* DatabaseModel.delete_user: the row goes, and ON DELETE CASCADE takes the
\* user's association, question, progress and pending rows with it.
delete_user(d, u) ==
    [d EXCEPT !.userState[u] = "none", !.userCards[u] = {},
              !.questions[u] = {}, !.progress[u] = <<>>, !.pending[u] = <<>>]

\* add_word without the lookup of the existing row.
add_word_always(d, w) == [d EXCEPT !.words = @ (+) SetToBag({w})]

\* DatabaseModel.add_word: select by (text, language), insert when absent.
add_word(d, w) ==
    IF BagIn(w, d.words) THEN d ELSE [d EXCEPT !.words = @ (+) SetToBag({w})]

\* DatabaseModel.add_card: select by (ru word, en word), insert when absent.
add_card(d, c) ==
    IF BagIn(c, d.cards) THEN d ELSE [d EXCEPT !.cards = @ (+) SetToBag({c})]

\* user.cards.add(card): queues an INSERT into user_card.
user_cards_add(d, u, c) == [d EXCEPT !.userCards[u] = @ \cup {c}]

\* The removal of the card from every user's collection.
delete_card_of_all(d, u, c) == [d EXCEPT !.userCards = [v \in Users |-> @[v] \ {c}]]

\* The removal made on an object the session does not track.
delete_user_card_detached(d, u, c) == d

\* The removal that takes the card's distractor rows with it, as the
\* deletion of the card row would.
delete_user_card_cascade(d, u, c) ==
    [d EXCEPT !.userCards[u] = @ \ {c},
              !.questions[u] = {[q EXCEPT !.distractors =
                                    SelectSeq(@, LAMBDA x : x.card # c)] : q \in @}]

\* DatabaseModel.delete_user_card: user.cards.remove(card).
delete_user_card(d, u, c) == [d EXCEPT !.userCards[u] = @ \ {c}]

\* DatabaseModel.get_card_number
get_card_number(d, u) == Cardinality(d.userCards[u])

\* DatabaseModel.add_learning_question
add_learning_question(d, u, q) == [d EXCEPT !.questions[u] = @ \cup {q}]

\* The DELETE statement that matches no row.
delete_no_question(d, u, q) == d

\* The DELETE statement without its question filter.
delete_every_question(d, u, q) == [d EXCEPT !.questions[u] = {}]

\* DatabaseModel.delete_learning_question with a question: that row only.
delete_one_question(d, u, q) == [d EXCEPT !.questions[u] = @ \ {q}]

\* DatabaseModel.delete_learning_question without a question: all rows of u.
delete_all_questions(d, u) == [d EXCEPT !.questions[u] = {}]

\* The query ordered by descending order.
get_last_learning_question(d, u) ==
    {q \in d.questions[u] : \A r \in d.questions[u] : q.order >= r.order}

\* DatabaseModel.get_next_learning_question: ORDER BY order LIMIT 1, as a
\* set holding the row, or the empty set.
get_next_learning_question(d, u) ==
    {q \in d.questions[u] : \A r \in d.questions[u] : q.order <= r.order}

\* LearningProgress(user=user): all three counters at their default 0.
NewLearningProgress == [succeeded_count |-> 0, failed_count |-> 0, skipped_count |-> 0]

\* The progress object inserted as a new row on every call.
update_learning_progress_insert(d, u, p) == [d EXCEPT !.progress[u] = Append(@, p)]

\* DatabaseModel.update_learning_progress: merge, insert when absent.
update_learning_progress(d, u, p) == [d EXCEPT !.progress[u] = <<p>>]

\* LearningState._get_learning_progress: the row, or a fresh object.
GetLearningProgress(d, u) ==
    IF d.progress[u] = <<>> THEN NewLearningProgress ELSE d.progress[u][1]

\* DatabaseModel.add_new_card_progress
add_new_card_progress(d, u, ru) == [d EXCEPT !.pending[u] = <<ru>>]

\* DatabaseModel.delete_new_card_progress
delete_new_card_progress(d, u) == [d EXCEPT !.pending[u] = <<>>]

\* ---------------------------------------------------------------- replies
\* OutputMessage: paragraphs (joined by blank lines) and the keyboard.

Para(msg, nums, texts) == [msg |-> msg, nums |-> nums, texts |-> texts]

OutputMessage(paras, buttons, row_size) ==
    [sent |-> TRUE, paras |-> paras, buttons |-> buttons, row_size |-> row_size]

\* None: the bot sends nothing.
NoReply == [sent |-> FALSE, paras |-> <<>>, buttons |-> <<>>, row_size |-> 0]

add_paragraph_before(r, p) == [r EXCEPT !.paras = <<p>> \o @]

BotErrorReply == OutputMessage(<<Para("BOT_ERROR", <<>>, <<>>)>>, <<>>, 0)

UserNotStartedReply == OutputMessage(<<Para("USER_NOT_STARTED", <<>>, <<>>)>>, <<>>, 0)

\* --------------------------------------------------------------- handlers
\* What a handler returns:
\*   snaps  the database as of each commit it made, in order
\*   reply  its return value
\*   tail   whether it runs storage operations after its last commit
\*   exc    how it ends: "none" (returns), "model_error" (a ModelError the
\*          storage is certain to raise), "value_error" (a ValueError that
\*          no handler catches), "hang" (it never returns)

Result(snaps, reply, tail, exc) ==
    [snaps |-> snaps, reply |-> reply, tail |-> tail, exc |-> exc]

After(snaps, r) == [r EXCEPT !.snaps = snaps \o @]

\* MainMenuState.start
MainMenuStart ==
    OutputMessage(<<Para("SELECT_MAIN_MENU", <<>>, <<>>)>>, MainMenuLabels, 1)

\* StateManager._update_user_state: set the state, update_user, commit.
\* update_user raises UserNotFoundError when the row is missing.
UpdateUserState(w, u, state) == [w EXCEPT !.userState[u] = state]

\* start_main_menu going to the state's start without writing the state.
StartMainMenuNoUpdate(w, u) ==
    IF ~user_exists(w, u)
    THEN Result(<<>>, NoReply, FALSE, "model_error")
    ELSE Result(<<w>>, MainMenuStart, FALSE, "none")

\* StateManager.start_main_menu = start(session, message, MAIN_MENU)
StartMainMenu(w, u) ==
    IF ~user_exists(w, u)
    THEN Result(<<>>, NoReply, FALSE, "model_error")
    ELSE Result(<<UpdateUserState(w, u, "main_menu")>>, MainMenuStart, FALSE, "none")

\* ---------------------------------------------------------- LearningState

\* The pseudorandom source.  One seed is drawn per learning start; every
\* random value of that start is a function of the seed.
\* get_random_cards: ORDER BY random() over the user's cards.
get_random_cards(S, seed) ==
    LET base == SortedCards(S)
        n == Len(base)
    IN  [i \in 1..n |->
            IF seed % 2 = 0
            THEN base[((i - 1 + seed) % n) + 1]
            ELSE base[n - ((i - 1 + seed) % n)]]

\* The draw made over the whole card table.
get_random_card_any(S, seed, order, k) ==
    CardUniverse[((seed + order + k) % Len(CardUniverse)) + 1]

\* get_random_card: the k-th draw made while building the question `order`.
\* Every card of the user comes up again and again.
get_random_card(S, seed, order, k) ==
    LET base == SortedCards(S)
    IN  base[((seed + order + k) % Len(base)) + 1]

\* random.randrange(CHOICE_COUNT)
RandomAnswerPosition(seed, order) == (seed + 3 * order) % CHOICE_COUNT

\* The dict `choices` of _get_distractors_for_card, as the sequence of its
\* values in insertion order; its keys are the en texts of the values.
ChoiceKeys(choices) == {choices[i].en : i \in 1..Len(choices)}

\* The loop condition: len(choices) < CHOICE_COUNT.
LoopRunning(choices) == Len(choices) < CHOICE_COUNT

\* The draw compared by card, not by en text.
LoopStepByCard(choices, choice) ==
    IF \A i \in 1..Len(choices) : choices[i] # choice
    THEN Append(choices, choice) ELSE choices

\* The loop body for one drawn card: keep it when its text is a new key.
LoopStep(choices, choice) ==
    IF choice.en \notin ChoiceKeys(choices) THEN Append(choices, choice) ELSE choices

\* No sequence of draws ends the loop: the user's cards carry fewer than
\* CHOICE_COUNT different en texts.
LoopDiverges(S) == Cardinality({c.en : c \in S}) < CHOICE_COUNT

RECURSIVE DistractorLoop(_, _, _, _, _)
DistractorLoop(choices, S, seed, order, k) ==
    IF LoopRunning(choices)
    THEN DistractorLoop(LoopStep(choices, get_random_card(S, seed, order, k)),
                        S, seed, order, k + 1)
    ELSE choices

\* LearningDistractor(order, card)
LearningDistractor(order, card) == [order |-> order, card |-> card]

\* LearningState._get_distractors_for_card: seed the dict with the answer,
\* run the loop, drop the answer, enumerate the rest.
GetDistractorsForCard(S, card, seed, order) ==
    LET choices == DistractorLoop(<<card>>, S, seed, order, 0)
        wrong == Tail(choices)
    IN  [i \in 1..Len(wrong) |-> LearningDistractor(i - 1, wrong[i])]

\* LearningQuestion(order, user, answer_card, distractors, answer_position)
LearningQuestion(order, card, distractors, answer_position) ==
    [order |-> order, answer_card |-> card, distractors |-> distractors,
     answer_position |-> answer_position]

\* LearningState._add_question_for_card
AddQuestionForCard(w, u, order, card, seed) ==
    add_learning_question(w, u,
        LearningQuestion(order, card,
                         GetDistractorsForCard(w.userCards[u], card, seed, order),
                         RandomAnswerPosition(seed, order)))

\* for order, card in enumerate(cards): self._add_question_for_card(...)
RECURSIVE AddQuestions(_, _, _, _, _)
AddQuestions(w, u, cs, order, seed) ==
    IF order >= Len(cs) THEN w
    ELSE AddQuestions(AddQuestionForCard(w, u, order, cs[order + 1], seed),
                      u, cs, order + 1, seed)

\* The insertion made one place further on.
InsertAfter(s, pos, x) ==
    LET p == IF pos + 1 > Len(s) THEN Len(s) ELSE pos + 1
    IN  SubSeq(s, 1, p) \o <<x>> \o SubSeq(s, p + 1, Len(s))

\* list.insert(pos, x)
InsertAt(s, pos, x) ==
    LET p == IF pos > Len(s) THEN Len(s) ELSE pos
    IN  SubSeq(s, 1, p) \o <<x>> \o SubSeq(s, p + 1, Len(s))

\* LearningState._get_keyboard
GetKeyboard(q) ==
    LET ds == [i \in 1..Len(q.distractors) |-> q.distractors[i].card]
        cs == InsertAt(ds, q.answer_position, q.answer_card)
    IN  [i \in 1..Len(cs) |-> cs[i].en] \o LearningMenuLabels

QuestionReply(q) ==
    OutputMessage(<<Para("SELECT_TRANSLATION", <<>>, <<q.answer_card.ru>>)>>,
                  GetKeyboard(q), 2)

\* _finish_learning without the deletion of the remaining questions.
FinishLearningKeep(w, u) ==
    LET r == StartMainMenu(w, u)
        p == GetLearningProgress(w, u)
        text == Para("FINISHED_LEARNING",
                     <<p.succeeded_count, p.skipped_count, p.failed_count>>, <<>>)
    IN  IF r.exc # "none" THEN r
        ELSE Result(r.snaps, add_paragraph_before(r.reply, text), TRUE, "none")

\* _finish_learning that reports the statistics and stays in LEARNING.
FinishLearningStay(w, u) ==
    LET w1 == delete_all_questions(w, u)
        r == StartMainMenuNoUpdate(w1, u)
        p == GetLearningProgress(w1, u)
        text == Para("FINISHED_LEARNING",
                     <<p.succeeded_count, p.skipped_count, p.failed_count>>, <<>>)
    IN  IF r.exc # "none" THEN r
        ELSE Result(r.snaps, add_paragraph_before(r.reply, text), TRUE, "none")

\* LearningState._finish_learning
FinishLearning(w, u) ==
    LET w1 == delete_all_questions(w, u)
        r == StartMainMenu(w1, u)
        p == GetLearningProgress(w1, u)
        text == Para("FINISHED_LEARNING",
                     <<p.succeeded_count, p.skipped_count, p.failed_count>>, <<>>)
    IN  IF r.exc # "none" THEN r
        ELSE Result(r.snaps, add_paragraph_before(r.reply, text), TRUE, "none")

\* _show_learning_card that sends nothing when no question is left.
ShowLearningCardNoFinish(w, u, cached) ==
    LET qs == IF cached # {} THEN cached ELSE get_next_learning_question(w, u)
    IN  IF qs # {}
        THEN Result(<<>>, QuestionReply(CHOOSE q \in qs : TRUE), cached = {}, "none")
        ELSE Result(<<>>, NoReply, TRUE, "none")

\* LearningState._show_learning_card; `cached` holds the question passed
\* in, or is empty.
ShowLearningCard(w, u, cached) ==
    LET qs == IF cached # {} THEN cached ELSE get_next_learning_question(w, u)
    IN  IF qs # {}
        THEN Result(<<>>, QuestionReply(CHOOSE q \in qs : TRUE), cached = {}, "none")
        ELSE FinishLearning(w, u)

\* The start of a session that leaves the counters as they are.
KeepLearningProgress(w, u) == w

\* LearningState._reset_learning_progress
ResetLearningProgress(w, u) == update_learning_progress(w, u, NewLearningProgress)

\* start without the deletion of the questions left from before.
LearningStartKeepStale(w, u, seed) ==
    LET w1 == ResetLearningProgress(w, u)
        card_number == get_card_number(w1, u)
    IN  IF card_number < CHOICE_COUNT
        THEN LET r == StartMainMenu(w1, u)
                 text == Para("NO_LEARNING_CARDS", <<card_number, CHOICE_COUNT>>, <<>>)
             IN  [r EXCEPT !.reply = add_paragraph_before(@, text)]
        ELSE IF LoopDiverges(w1.userCards[u])
        THEN Result(<<>>, NoReply, TRUE, "hang")
        ELSE LET w2 == AddQuestions(w1, u, get_random_cards(w1.userCards[u], seed), 0, seed)
                 r == ShowLearningCard(w2, u, {})
                 text == Para("PLAN_LEARNING_COUNT", <<card_number>>, <<>>)
             IN  After(<<w2>>, [r EXCEPT !.reply = add_paragraph_before(@, text)])

\* The start that shows the first question without the commit before it.
LearningStartNoCommit(w, u, seed) ==
    LET w1 == ResetLearningProgress(delete_all_questions(w, u), u)
        card_number == get_card_number(w1, u)
    IN  IF card_number < CHOICE_COUNT
        THEN LET r == StartMainMenu(w1, u)
                 text == Para("NO_LEARNING_CARDS", <<card_number, CHOICE_COUNT>>, <<>>)
             IN  [r EXCEPT !.reply = add_paragraph_before(@, text)]
        ELSE IF LoopDiverges(w1.userCards[u])
        THEN Result(<<>>, NoReply, TRUE, "hang")
        ELSE LET w2 == AddQuestions(w1, u, get_random_cards(w1.userCards[u], seed), 0, seed)
                 r == ShowLearningCard(w2, u, {})
                 text == Para("PLAN_LEARNING_COUNT", <<card_number>>, <<>>)
             IN  [r EXCEPT !.reply = add_paragraph_before(@, text)]

\* LearningState.start
LearningStart(w, u, seed) ==
    LET w1 == ResetLearningProgress(delete_all_questions(w, u), u)
        card_number == get_card_number(w1, u)
    IN  IF card_number < CHOICE_COUNT
        THEN LET r == StartMainMenu(w1, u)
                 text == Para("NO_LEARNING_CARDS", <<card_number, CHOICE_COUNT>>, <<>>)
             IN  [r EXCEPT !.reply = add_paragraph_before(@, text)]
        ELSE IF LoopDiverges(w1.userCards[u])
        THEN Result(<<>>, NoReply, TRUE, "hang")
        ELSE LET w2 == AddQuestions(w1, u, get_random_cards(w1.userCards[u], seed), 0, seed)
                 r == ShowLearningCard(w2, u, {})
                 text == Para("PLAN_LEARNING_COUNT", <<card_number>>, <<>>)
             IN  After(<<w2>>, [r EXCEPT !.reply = add_paragraph_before(@, text)])

\* _increment_succeeded counting the answer twice.
IncrementSucceededTwice(w, u) ==
    update_learning_progress(w, u,
        [GetLearningProgress(w, u) EXCEPT !.succeeded_count = @ + 2])

\* LearningState._increment_succeeded / _increment_failed / _increment_skipped
IncrementSucceeded(w, u) ==
    update_learning_progress(w, u,
        [GetLearningProgress(w, u) EXCEPT !.succeeded_count = @ + 1])

IncrementFailed(w, u) ==
    update_learning_progress(w, u,
        [GetLearningProgress(w, u) EXCEPT !.failed_count = @ + 1])

\* _increment_skipped counting a failure.
IncrementSkippedAsFailed(w, u) ==
    update_learning_progress(w, u,
        [GetLearningProgress(w, u) EXCEPT !.failed_count = @ + 1])

IncrementSkipped(w, u) ==
    update_learning_progress(w, u,
        [GetLearningProgress(w, u) EXCEPT !.skipped_count = @ + 1])

\* LearningState._preprocess_word: preprocess_user_word raises ValueError
\* for a too long text; the handler names WordTooLongError, which
\* card_manager does not raise, so the ValueError leaves the method.
LearningPreprocessRaises(text) == ~PreprocessOk(text)

\* The branch of LearningState.respond taken for a pending question q:
\* the working database and the feedback paragraph.
JudgeAnswer(w, u, q, text) ==
    LET card == q.answer_card
        asked == card.ru
        answer == card.en
    IN  IF PreprocessUserWord(text) = answer
        THEN [w |-> IncrementSucceeded(delete_one_question(w, u, q), u),
              text |-> Para("CORRECT_TRANSLATION", <<>>, <<asked, answer>>),
              cached |-> {}]
        ELSE IF text = SKIP
        THEN [w |-> IncrementSkipped(delete_one_question(w, u, q), u),
              text |-> Para("SKIPPED_TRANSLATION", <<>>, <<>>),
              cached |-> {}]
        ELSE IF text = DELETE
        THEN [w |-> delete_user_card(delete_one_question(w, u, q), u, card),
              text |-> Para("DELETED_RU_EN_CARD", <<>>, <<asked, answer>>),
              cached |-> {}]
        ELSE [w |-> IncrementFailed(w, u),
              text |-> Para("WRONG_TRANSLATION", <<>>, <<>>),
              cached |-> {q}]

\* LearningState.respond from the point where the pending question has been
\* read: qs is what get_next_learning_question returned, w the database the
\* rest of the method works on.
LearningRespondRead(w, u, text, qs) ==
    IF qs = {} \/ text = FINISH
    THEN FinishLearning(w, u)
    ELSE IF LearningPreprocessRaises(text)
    THEN Result(<<>>, NoReply, TRUE, "value_error")
    ELSE LET q == CHOOSE q \in qs : TRUE
             j == JudgeAnswer(w, u, q, text)
             r == ShowLearningCard(j.w, u, j.cached)
         IN  After(<<j.w>>, [r EXCEPT !.reply = add_paragraph_before(@, j.text)])

\* LearningState.respond
LearningRespond(w, u, text) ==
    LearningRespondRead(w, u, text, get_next_learning_question(w, u))

\* ----------------------------------------------------------- AddCardState

WordTooLong == Para("WORD_TOO_LONG", <<MAX_LENGTH>>, <<>>)

\* The start that leaves a pending record where it is.
AddCardStartKeep(w, u) ==
    Result(<<w>>,
           OutputMessage(<<Para("ENTER_RU_WORD", <<>>, <<>>)>>, <<>>, 0),
           FALSE, "none")

\* AddCardState.start
AddCardStart(w, u) ==
    Result(<<delete_new_card_progress(w, u)>>,
           OutputMessage(<<Para("ENTER_RU_WORD", <<>>, <<>>)>>, <<>>, 0),
           FALSE, "none")

\* _process_first_word without the length check.
ProcessFirstWordNoCheck(w, u, text) ==
    LET ru == PreprocessUserWord(text)
        w1 == add_new_card_progress(add_word(w, Word(ru, RU)), u, ru)
    IN  Result(<<w1>>,
               OutputMessage(<<Para("ENTER_EN_WORD", <<>>, <<>>)>>, <<>>, 0),
               FALSE, "none")

\* AddCardState._process_first_word
ProcessFirstWord(w, u, text) ==
    IF ~PreprocessOk(text)
    THEN LET r == AddCardStart(w, u)
         IN  [r EXCEPT !.reply = add_paragraph_before(@, WordTooLong)]
    ELSE LET ru == PreprocessUserWord(text)
             w1 == add_new_card_progress(add_word(w, Word(ru, RU)), u, ru)
         IN  Result(<<w1>>,
                    OutputMessage(<<Para("ENTER_EN_WORD", <<>>, <<>>)>>, <<>>, 0),
                    FALSE, "none")

\* AddCardState._process_second_word.  The commit after user.cards.add
\* inserts the association row; the row's primary key is (user, card), so
\* the insert fails when the user already holds the card.
ProcessSecondWord(w, u, text, ru) ==
    LET w1 == delete_new_card_progress(w, u)
    IN  IF ~PreprocessOk(text)
        THEN Result(<<>>,
                    OutputMessage(<<WordTooLong, Para("ENTER_EN_WORD", <<>>, <<>>)>>,
                                  <<>>, 0),
                    TRUE, "none")
        ELSE LET en == PreprocessUserWord(text)
                 card == Card(ru, en)
                 w2 == add_card(add_word(w1, Word(en, EN)), card)
                 w3 == user_cards_add(w2, u, card)
                 count == get_card_number(w3, u)
                 r == StartMainMenu(w3, u)
                 added == Para("ADDED_RU_EN_CARD", <<>>, <<ru, en>>)
                 text_count == Para("NEW_LEARNING_COUNT", <<count>>, <<>>)
             IN  IF card \in w2.userCards[u]
                 THEN Result(<<>>, NoReply, TRUE, "model_error")
                 ELSE After(<<w3>>,
                        [r EXCEPT !.reply =
                            add_paragraph_before(add_paragraph_before(@, text_count),
                                                 added)])

\* AddCardState.respond
AddCardRespond(w, u, text) ==
    IF w.pending[u] # <<>>
    THEN ProcessSecondWord(w, u, text, w.pending[u][1])
    ELSE ProcessFirstWord(w, u, text)

\* ----------------------------------------------------------- StateManager

\* start with the state written after the new state's start has run.
ManagerStartLate(w, u, state, seed) ==
    IF ~user_exists(w, u)
    THEN Result(<<>>, NoReply, FALSE, "model_error")
    ELSE LET r == CASE state = "learning" -> LearningStart(w, u, seed)
                    [] state = "adding_card" -> AddCardStart(w, u)
                    [] OTHER -> Result(<<>>, MainMenuStart, FALSE, "none")
             base == IF r.snaps = <<>> THEN w ELSE r.snaps[Len(r.snaps)]
         IN  IF r.exc # "none" THEN r
             ELSE Result(r.snaps \o <<UpdateUserState(base, u, state)>>,
                         r.reply, FALSE, "none")

\* StateManager.start
ManagerStart(w, u, state, seed) ==
    IF ~user_exists(w, u)
    THEN Result(<<>>, NoReply, FALSE, "model_error")
    ELSE LET w1 == UpdateUserState(w, u, state)
         IN  After(<<w1>>,
                   CASE state = "learning" -> LearningStart(w1, u, seed)
                     [] state = "adding_card" -> AddCardStart(w1, u)
                     [] OTHER -> Result(<<>>, MainMenuStart, FALSE, "none"))

\* respond matching the label after trimming and lowercasing.
MainMenuRespondNormalized(w, u, text, seed) ==
    IF Lower(Strip(text)) = Lower(LEARN) THEN ManagerStart(w, u, "learning", seed)
    ELSE IF Lower(Strip(text)) = Lower(ADD_CARD)
    THEN ManagerStart(w, u, "adding_card", seed)
    ELSE Result(<<>>, NoReply, FALSE, "none")

\* MainMenuState.respond
MainMenuRespond(w, u, text, seed) ==
    IF text = LEARN THEN ManagerStart(w, u, "learning", seed)
    ELSE IF text = ADD_CARD THEN ManagerStart(w, u, "adding_card", seed)
    ELSE Result(<<>>, NoReply, FALSE, "none")

\* StateManager.respond
ManagerRespond(w, u, text, seed) ==
    CASE w.userState[u] = "main_menu" -> MainMenuRespond(w, u, text, seed)
      [] w.userState[u] = "learning" -> LearningRespond(w, u, text)
      [] w.userState[u] = "adding_card" -> AddCardRespond(w, u, text)
      [] OTHER -> Result(<<>>, NoReply, FALSE, "none")

\* ------------------------------------------------------------- Controller

\* CardManager.add_card with two plain texts, then user.cards.add(card).
AddDefaultCard(w, u, pair) ==
    LET ru == PreprocessUserWord(pair[1])
        en == PreprocessUserWord(pair[2])
    IN  user_cards_add(
            add_card(add_word(add_word(w, Word(ru, RU)), Word(en, EN)), Card(ru, en)),
            u, Card(ru, en))

\* Controller._add_default_cards: one commit per card; the snapshots.
RECURSIVE AddDefaultCards(_, _, _)
AddDefaultCards(w, u, i) ==
    IF i > Len(DefaultCards) THEN <<>>
    ELSE LET w1 == AddDefaultCard(w, u, DefaultCards[i])
         IN  <<w1>> \o AddDefaultCards(w1, u, i + 1)

\* _preprocess_user seeding whether or not the user is known.
PreprocessUserAlwaysSeed(d, u) ==
    LET w == IF user_exists(d, u) THEN d ELSE add_user(d, u, "new_user")
        cs == AddDefaultCards(w, u, 1)
        final == IF cs = <<>> THEN w ELSE cs[Len(cs)]
    IN  [snaps |-> cs \o <<final>>, state |-> w.userState[u]]

\* Controller._preprocess_user: the commits it makes and the state it
\* leaves in message.user.state.
PreprocessUser(d, u) ==
    IF user_exists(d, u)
    THEN [snaps |-> <<d>>, state |-> d.userState[u]]
    ELSE LET w == add_user(d, u, "new_user")
             cs == AddDefaultCards(w, u, 1)
             final == IF cs = <<>> THEN w ELSE cs[Len(cs)]
         IN  [snaps |-> cs \o <<final>>, state |-> "new_user"]

LastOf(snaps) == snaps[Len(snaps)]

\* Controller.start_user
StartUser(d, u) ==
    LET p == PreprocessUser(d, u)
        greeting == IF p.state = "new_user"
                    THEN Para("GREETING_NEW_USER", <<>>, <<>>)
                    ELSE Para("GREETING_OLD_USER", <<>>, <<>>)
        r == StartMainMenu(LastOf(p.snaps), u)
    IN  After(p.snaps, [r EXCEPT !.reply = add_paragraph_before(@, greeting)])

\* Controller.clear_user with Controller._delete_user
ClearUser(d, u) ==
    Result(<<delete_user(d, u)>>,
           OutputMessage(<<Para(IF user_exists(d, u) THEN "DELETED_USER"
                                ELSE "DELETED_NOT_EXISTING", <<>>, <<>>)>>, <<>>, 0),
           FALSE, "none")

\* respond_user without the user_exists check.
RespondUserNoCheck(d, u, text, seed) ==
    LET p == PreprocessUser(d, u)
    IN  After(p.snaps, ManagerRespond(LastOf(p.snaps), u, text, seed))

\* Controller.respond_user
RespondUser(d, u, text, seed) ==
    IF ~user_exists(d, u)
    THEN Result(<<>>, UserNotStartedReply, TRUE, "none")
    ELSE LET p == PreprocessUser(d, u)
         IN  After(p.snaps, ManagerRespond(LastOf(p.snaps), u, text, seed))

\* ------------------------------------------------------------------ turns
\* The ways a turn can end, for a handler result r started on database d:
\* a storage operation fails before the (k+1)-th commit completes, or after
\* the last commit; or the handler runs to its end.  `except ModelError`
\* turns every failure into the one BOT_ERROR message.  `cause` tells a
\* failure of the storage ("storage") from an error the handler's own
\* writes provoke at the commit ("handler": the IntegrityError of an
\* association row inserted twice).

\* The handler's own reply sent although the turn failed.
ErrorReplyPartial(r) == r.reply

ErrorReply(r) == BotErrorReply

Committed(d, r, k) == IF k = 0 THEN d ELSE r.snaps[k]

Outcomes(d, r) ==
    LET n == Len(r.snaps)
    IN  {[db |-> Committed(d, r, k), outcome |-> "model_error",
          cause |-> IF k = n /\ r.exc = "model_error" THEN "handler" ELSE "storage",
          reply |-> ErrorReply(r)] :
            k \in {i \in 0..n : i < n \/ r.tail \/ r.exc = "model_error"}}
        \cup
        (IF r.exc = "model_error" THEN {}
         ELSE {[db |-> Committed(d, r, n),
                outcome |-> IF r.exc = "none" THEN "ok" ELSE r.exc,
                cause |-> "none",
                reply |-> IF r.exc = "none" THEN r.reply ELSE NoReply]})

Persist(d) ==
    /\ userState' = d.userState
    /\ userCards' = d.userCards
    /\ questions' = d.questions
    /\ progress' = d.progress
    /\ pending' = d.pending
    /\ words' = d.words
    /\ cards' = d.cards

FailedCount(d, u) == GetLearningProgress(d, u).failed_count

\* The process is stuck once a handler never returns.
Running == last.outcome # "hang"

\* One turn: `last` records the operation, the text the handler judged (a
\* turn cut short by a storage failure records none), how it ended, why,
\* and the reply.
Handle(op, u, text, r) ==
    /\ Running
    /\ \E o \in Outcomes(DB, r) :
        /\ FailedCount(o.db, u) <= MaxFailed
        /\ Persist(o.db)
        /\ last' = [op |-> op, user |-> u,
                    text |-> IF o.cause = "storage" THEN <<>> ELSE text,
                    outcome |-> o.outcome, cause |-> o.cause, reply |-> o.reply]

\* A turn of the bot that handles one message at a time.
Turn(op, u, text, r) == Handle(op, u, text, r) /\ UNCHANGED <<loopVars, workers>>

\* Bot.handle_start -> Controller.start_user
StartTurn(u) == Turn("start", u, <<>>, StartUser(DB, u))

\* Bot.handle_clear -> Controller.clear_user
ClearTurn(u) == Turn("clear", u, <<>>, ClearUser(DB, u))

InputsFor(u, enInputs) ==
    CASE userState[u] = "learning" -> LearnInputs
      [] userState[u] = "adding_card" ->
            IF pending[u] = <<>> THEN RuInputs ELSE enInputs
      [] OTHER -> MenuInputs

\* The seed matters to a turn that starts a learning session only.
SeedsFor(u, text) ==
    IF userState[u] = "main_menu" /\ text = LEARN THEN 0..(NumSeeds - 1) ELSE {0}

\* Bot.handle_text -> Controller.respond_user
RespondTurn(u, enInputs) ==
    \E text \in InputsFor(u, enInputs) : \E seed \in SeedsFor(u, text) :
        Turn("respond", u, text, RespondUser(DB, u, text, seed))

Init ==
    /\ userState = EmptyDB.userState
    /\ userCards = EmptyDB.userCards
    /\ questions = EmptyDB.questions
    /\ progress = EmptyDB.progress
    /\ pending = EmptyDB.pending
    /\ words = EmptyDB.words
    /\ cards = EmptyDB.cards
    /\ last = [op |-> "init", user |-> CHOOSE u \in Users : TRUE, text |-> <<>>,
               outcome |-> "ok", cause |-> "none", reply |-> NoReply]
    /\ loopPc = "idle"
    /\ loopCards = {}
    /\ loopCard = CardUniverse[1]
    /\ loopChoices = <<>>
    /\ workers = [w \in Workers |-> IdleWorker]

NextWith(enInputs) ==
    \E u \in Actors : StartTurn(u) \/ ClearTurn(u) \/ RespondTurn(u, enInputs)

Next == NextWith(EnInputs)

Spec == Init /\ [][Next]_vars

NextSkip == NextWith(EnInputsSkip)

SpecSkip == Init /\ [][NextSkip]_vars

NextDelete == NextWith(EnInputsDelete)

SpecDelete == Init /\ [][NextDelete]_vars

NextFinish == NextWith(EnInputsFinish)

SpecFinish == Init /\ [][NextFinish]_vars

\* The target-word input is the Finish label, and the pseudorandom source
\* has one more outcome, an order of the questions in which the card added
\* last is not the last question.
SeedsShifted(u, text) ==
    IF userState[u] = "main_menu" /\ text = LEARN THEN {0, NumSeeds} ELSE {0}

RespondTurnShifted(u) ==
    \E text \in InputsFor(u, EnInputsFinish) : \E seed \in SeedsShifted(u, text) :
        Turn("respond", u, text, RespondUser(DB, u, text, seed))

NextShifted ==
    \E u \in Actors : StartTurn(u) \/ ClearTurn(u) \/ RespondTurnShifted(u)

SpecShifted == Init /\ [][NextShifted]_vars

\* Two users, each starting, clearing and adding cards; the menu input is
\* the Add-word label.
AddInputsFor(u) ==
    CASE userState[u] = "main_menu" -> {ADD_CARD}
      [] userState[u] = "adding_card" ->
            IF pending[u] = <<>> THEN RuInputs ELSE EnInputs
      [] OTHER -> {<<"b">>}

AddTurn(u) ==
    \E text \in AddInputsFor(u) :
        Turn("respond", u, text, RespondUser(DB, u, text, 0))

NextTwo == \E u \in Users : StartTurn(u) \/ ClearTurn(u) \/ AddTurn(u)

SpecTwo == Init /\ [][NextTwo]_vars

\* Two users who start, add a card and begin a session; the actor also
\* clears and deletes the cards of the session.
FrameInputsFor(u) ==
    CASE userState[u] = "main_menu" -> {LEARN, ADD_CARD}
      [] userState[u] = "learning" -> IF u \in Actors THEN {DELETE} ELSE {}
      [] userState[u] = "adding_card" ->
            IF pending[u] = <<>> THEN {<<" ", "X">>} ELSE {<<" ", "A", " ">>}
      [] OTHER -> {<<"b">>}

FrameTurn(u) ==
    \E text \in FrameInputsFor(u) :
        Turn("respond", u, text, RespondUser(DB, u, text, 0))

NextFrame ==
    \/ \E u \in Users : StartTurn(u) \/ FrameTurn(u)
    \/ \E u \in Actors : ClearTurn(u)

SpecFrame == Init /\ [][NextFrame]_vars

\* ------------------------------------------------------ message dispatch
\* Bot.__init__ registers one handler per command and then the text
\* handler; the transport calls the first registered handler whose filter
\* accepts the message.

\* BotCommand: the command names.
START == <<"s", "t", "a", "r", "t">>
HELP == <<"h", "e", "l", "p">>
CLEAR == <<"c", "l", "e", "a", "r">>

\* The message text that carries a command.
CommandText(command) == <<"/">> \o command

\* The first word of a text, cut at a blank or at "@".
FirstToken(text) ==
    LET stops == {i \in 1..Len(text) : text[i] \in {" ", "@"}}
    IN  IF stops = {} THEN text
        ELSE SubSeq(text, 1, (CHOOSE i \in stops : \A j \in stops : i <= j) - 1)

\* The command a text carries: the set holding it, or the empty set for
\* a text that does not begin with "/".
ExtractCommand(text) ==
    IF text # <<>> /\ text[1] = "/" THEN {Tail(FirstToken(text))} ELSE {}

\* The registrations without the one of CLEAR.
HandlersNoClear ==
    << [function |-> "handle_start", filtered |-> TRUE, commands |-> {START}],
       [function |-> "handle_help", filtered |-> TRUE, commands |-> {HELP}],
       [function |-> "handle_text", filtered |-> FALSE, commands |-> {}] >>

\* register_message_handler, in the order of the calls: commands=[command]
\* for START, HELP and CLEAR, then content_types=['text'] (no command
\* filter) for handle_text.
Handlers ==
    << [function |-> "handle_start", filtered |-> TRUE, commands |-> {START}],
       [function |-> "handle_help", filtered |-> TRUE, commands |-> {HELP}],
       [function |-> "handle_clear", filtered |-> TRUE, commands |-> {CLEAR}],
       [function |-> "handle_text", filtered |-> FALSE, commands |-> {}] >>

\* The filter of a handler: every message here is a text message.
HandlerAccepts(h, text) ==
    ~h.filtered \/ ExtractCommand(text) \cap h.commands # {}

\* The handler that receives a text: the first registered one that accepts.
Dispatch(text) ==
    LET m == {i \in 1..Len(Handlers) : HandlerAccepts(Handlers[i], text)}
    IN  Handlers[CHOOSE i \in m : \A j \in m : i <= j].function

\* Bot._handle_message: COMMAND_TO_HANDLER[command] applied to the message.
\* The handler of /help is not part of the controller and no /help is sent.
Route(u, text) ==
    LET f == Dispatch(text)
    IN  CASE f = "handle_start" -> {[op |-> "start", r |-> StartUser(DB, u)]}
          [] f = "handle_clear" -> {[op |-> "clear", r |-> ClearUser(DB, u)]}
          [] f = "handle_text" ->
                {[op |-> "respond", r |-> RespondUser(DB, u, text, seed)] :
                    seed \in SeedsFor(u, text)}
          [] OTHER -> {}

\* A message handled by the bot that handles one message at a time.
HandleMessage(u, text) == \E h \in Route(u, text) : Turn(h.op, u, text, h.r)

\* What a user sends: the two commands, and the texts of the current state.
MessagesFor(u) ==
    {CommandText(START), CommandText(CLEAR)} \cup InputsFor(u, EnInputs)

NextBot == \E u \in Actors : \E text \in MessagesFor(u) : HandleMessage(u, text)

SpecBot == Init /\ [][NextBot]_vars

\* ------------------------------------------------------- the worker pool
\* Bot.run polls with the bot that _create_bot made: the poller hands each
\* message to the pool, where a free worker thread runs its handler while
\* the poller goes on.  The storage effects of a handler are applied in one
\* step when it ends.

\* What a user sends to the pooled bot: the commands and two menu labels.
PoolMessages == {CommandText(START), CommandText(CLEAR), LEARN, FINISH}

\* A free worker thread accepts the next message.
WorkerTake(w, u, text) ==
    /\ Running
    /\ ~workers[w].busy
    /\ workers' = [workers EXCEPT ![w] = [busy |-> TRUE, user |-> u, text |-> text,
                                          question |-> {}, pc |-> "taken"]]
    /\ UNCHANGED <<dbVars, last, loopVars>>

\* The handler run by a worker thread comes to its end.
WorkerRun(w) ==
    /\ workers[w].busy
    /\ \E h \in Route(workers[w].user, workers[w].text) :
          Handle(h.op, workers[w].user, workers[w].text, h.r)
    /\ workers' = [workers EXCEPT ![w] = IdleWorker]
    /\ UNCHANGED loopVars

NextPool ==
    \E w \in Workers :
        \/ \E u \in Actors : \E text \in PoolMessages : WorkerTake(w, u, text)
        \/ WorkerRun(w)

SpecPool == Init /\ [][NextPool]_vars

\* ------------------------------------------- overlapping learning turns
\* The pool at the granularity of the transactions of a learning turn.
\* Every handler works in a session of its own on a READ COMMITTED
\* database: what it reads is what has been committed by then.  A turn of
\* a user in LEARNING is taken in two steps: the handler reads the user
\* and the pending question (respond_user up to get_next_learning_question),
\* and later it judges the input against the question it has read, writes
\* and commits.  The DELETE of a question row that an overlapping turn has
\* deleted matches no row and is not an error, and the counters are read
\* after that DELETE has been flushed.

\* The messages sent to the pool: Skip and the correct answer to the
\* pending question at any time, and, while no handler is running, the
\* command and the menu label that lead into a session.
RaceMessagesFor(u) ==
    {SKIP} \cup {q.answer_card.en : q \in get_next_learning_question(DB, u)}
        \cup (IF \A w \in Workers : ~workers[w].busy
              THEN {CommandText(START), LEARN} ELSE {})

\* The message taken by worker w is a text for a user in LEARNING.
LearningTurn(w) ==
    /\ Dispatch(workers[w].text) = "handle_text"
    /\ userState[workers[w].user] = "learning"

\* Worker w runs respond_user up to the read of the pending question.
WorkerRead(w) ==
    /\ Running
    /\ workers[w].pc = "taken"
    /\ LearningTurn(w)
    /\ workers' = [workers EXCEPT
                      ![w].question = get_next_learning_question(DB, workers[w].user),
                      ![w].pc = "read"]
    /\ UNCHANGED <<dbVars, last, loopVars>>

\* Worker w runs the rest of LearningState.respond on the question it has
\* read and the handler comes to its end.
WorkerJudge(w) ==
    /\ workers[w].pc = "read"
    /\ Handle("respond", workers[w].user, workers[w].text,
              LearningRespondRead(DB, workers[w].user, workers[w].text,
                                  workers[w].question))
    /\ workers' = [workers EXCEPT ![w] = IdleWorker]
    /\ UNCHANGED loopVars

\* Every other handler, taken in one step.
WorkerOther(w) ==
    /\ workers[w].pc = "taken"
    /\ ~LearningTurn(w)
    /\ WorkerRun(w)

NextRace ==
    \E w \in Workers :
        \/ \E u \in Actors : \E text \in RaceMessagesFor(u) : WorkerTake(w, u, text)
        \/ WorkerRead(w)
        \/ WorkerJudge(w)
        \/ WorkerOther(w)

SpecRace == Init /\ [][NextRace]_vars

\* ------------------------------------------- the distractor loop, by steps
\* LearningState._get_distractors_for_card run one draw at a time, for a
\* user whose collection passed the card-count check of LearningState.start.
\* A draw that is rejected leaves `choices` as it was.

CardSet == {CardUniverse[i] : i \in 1..Len(CardUniverse)}

LoopCollections == {S \in SUBSET CardSet : Cardinality(S) >= CHOICE_COUNT}

InitLoop ==
    /\ userState = EmptyDB.userState
    /\ userCards = EmptyDB.userCards
    /\ questions = EmptyDB.questions
    /\ progress = EmptyDB.progress
    /\ pending = EmptyDB.pending
    /\ words = EmptyDB.words
    /\ cards = EmptyDB.cards
    /\ last = [op |-> "init", user |-> CHOOSE u \in Users : TRUE, text |-> <<>>,
               outcome |-> "ok", cause |-> "none", reply |-> NoReply]
    /\ loopPc = "running"
    /\ loopCards \in LoopCollections
    /\ loopCard \in loopCards
    /\ loopChoices = <<loopCard>>
    /\ workers = [w \in Workers |-> IdleWorker]

\* choice = get_random_card(...); the loop body
LoopDraw(c) ==
    /\ loopPc = "running"
    /\ LoopRunning(loopChoices)
    /\ c \in loopCards
    /\ loopChoices' = LoopStep(loopChoices, c)
    /\ UNCHANGED <<dbVars, last, loopPc, loopCards, loopCard, workers>>

\* the loop condition fails: del choices[...]; return
LoopExit ==
    /\ loopPc = "running"
    /\ ~LoopRunning(loopChoices)
    /\ loopPc' = "done"
    /\ UNCHANGED <<dbVars, last, loopCards, loopCard, loopChoices, workers>>

NextLoop == (\E c \in CardSet : LoopDraw(c)) \/ LoopExit

\* Fair draws: a card whose draw would change `choices` is drawn in the end.
SpecLoop ==
    /\ InitLoop
    /\ [][NextLoop]_vars
    /\ \A c \in CardSet : WF_vars(LoopDraw(c))
    /\ WF_vars(LoopExit)

\* ----------------------------------------------------------------- claims

ProgressOf(p, u) == IF p[u] = <<>> THEN NewLearningProgress ELSE p[u][1]

\* The turn taken by this step is a respond turn of u that was not cut
\* short by a storage failure.
Responded(u) == last'.op = "respond" /\ last'.user = u /\ last'.outcome # "model_error"

\* C1: a respond turn of an identity without a user record leaves every
\* table as it was and, unless the storage failed while the record was
\* looked up, returns exactly the USER_NOT_STARTED message.
C1_NotStarted ==
    [][\A u \in Users :
        (userState[u] = "none" /\ last'.op = "respond" /\ last'.user = u)
        => /\ dbVars' = dbVars
           /\ last'.outcome \in {"ok", "model_error"}
           /\ last'.outcome = "ok" => last'.reply = UserNotStartedReply]_vars

C1_Witness ==
    /\ last.op = "respond"
    /\ last.outcome = "ok"
    /\ last.reply = UserNotStartedReply
    /\ userState[last.user] = "none"
    /\ userCards[last.user] = {}

\* C2: a turn in which the storage failed leaves the persisted data exactly
\* as it was before the turn.
C2_TurnAtomic == [][last'.outcome = "model_error" => dbVars' = dbVars]_vars

\* C3: a turn in which a storage operation failed returns the BOT_ERROR
\* message and nothing else.
C3_OnlyBotError == last.outcome = "model_error" => last.reply = BotErrorReply

\* The storage failed after the manager committed the LEARNING state.
C3_Witness ==
    /\ last.outcome = "model_error"
    /\ last.op = "respond"
    /\ last.reply = BotErrorReply
    /\ userState[last.user] = "learning"
    /\ questions[last.user] = {}

\* The respond turn just taken started a learning session of u.
SessionJustStarted(u) ==
    /\ last.op = "respond"
    /\ last.user = u
    /\ last.text = LEARN
    /\ last.outcome = "ok"
    /\ userState[u] = "learning"

DistinctTexts(q) ==
    /\ \A i, j \in 1..Len(q.distractors) :
          i # j => q.distractors[i].card.en # q.distractors[j].card.en
    /\ \A i \in 1..Len(q.distractors) :
          q.distractors[i].card.en # q.answer_card.en

\* C4: a session just started for a user with N cards has exactly N
\* questions, their order values are exactly 0..N-1 (whatever questions
\* were stored before), and every question has CHOICE_COUNT-1 distractors
\* whose en texts differ from each other and from the answer's.
C4_SessionShape ==
    \A u \in Users :
        SessionJustStarted(u) =>
            LET N == Cardinality(userCards[u])
            IN  /\ N >= CHOICE_COUNT
                /\ Cardinality(questions[u]) = N
                /\ {q.order : q \in questions[u]} = 0..(N - 1)
                /\ \A q \in questions[u] :
                      /\ Len(q.distractors) = CHOICE_COUNT - 1
                      /\ DistinctTexts(q)

\* A session over a collection in which two cards share their en text.
C4_Witness ==
    \E u \in Users :
        /\ SessionJustStarted(u)
        /\ Cardinality(userCards[u]) > CHOICE_COUNT
        /\ \E c1, c2 \in userCards[u] : c1 # c2 /\ c1.en = c2.en

\* C5: the distractor loop ends for every collection of at least
\* CHOICE_COUNT cards, under fair draws.
C5_LoopTerminates == <>(loopPc = "done")

\* C6: Learn chosen in MAIN_MENU with fewer than CHOICE_COUNT cards ends in
\* MAIN_MENU with no question and the reply NO_LEARNING_CARDS(count,
\* CHOICE_COUNT) followed by the main menu.
C6_NotEnoughCards ==
    [][\A u \in Users :
        (/\ userState[u] = "main_menu"
         /\ Cardinality(userCards[u]) < CHOICE_COUNT
         /\ last'.op = "respond" /\ last'.user = u /\ last'.text = LEARN
         /\ last'.outcome = "ok")
        => /\ userState'[u] = "main_menu"
           /\ questions'[u] = {}
           /\ last'.reply =
                OutputMessage(
                    <<Para("NO_LEARNING_CARDS",
                           <<Cardinality(userCards[u]), CHOICE_COUNT>>, <<>>),
                      Para("SELECT_MAIN_MENU", <<>>, <<>>)>>,
                    MainMenuLabels, 1)]_vars

C6_Witness ==
    /\ last.op = "respond"
    /\ last.text = LEARN
    /\ last.outcome = "ok"
    /\ userState[last.user] = "main_menu"
    /\ last.reply.sent
    /\ last.reply.paras[1] =
          Para("NO_LEARNING_CARDS",
               <<Cardinality(userCards[last.user]), CHOICE_COUNT>>, <<>>)
    /\ Cardinality(userCards[last.user]) = CHOICE_COUNT - 1

\* The question asked next: the pending question of a learning session.
NextOf(Q) == {q \in Q : \A r \in Q : q.order <= r.order}

\* text is the correct answer to q: its trimmed, lowercased form is the
\* answer's en text.
Correct(text, q) == PreprocessOk(text) /\ PreprocessUserWord(text) = q.answer_card.en

\* u is in LEARNING with q pending and the step is a respond turn of u.
Answering(u, q) ==
    /\ userState[u] = "learning"
    /\ q \in NextOf(questions[u])
    /\ Responded(u)

SucceededEffect(u, q) ==
    /\ questions'[u] = questions[u] \ {q}
    /\ ProgressOf(progress', u) =
          [ProgressOf(progress, u) EXCEPT !.succeeded_count = @ + 1]

\* C7 as stated: every input whose trimmed, lowercased form equals the
\* answer's en text deletes exactly the pending question and adds 1 to
\* succeeded_count only.
C7_Original ==
    [][\A u \in Users : \A q \in NextOf(questions[u]) :
        (Answering(u, q) /\ Correct(last'.text, q)) => SucceededEffect(u, q)]_vars

\* C7: every input other than the Finish label whose trimmed, lowercased
\* form equals the answer's en text deletes exactly the pending question
\* and adds 1 to succeeded_count, leaving failed_count and skipped_count.
C7_CorrectAnswer ==
    [][\A u \in Users : \A q \in NextOf(questions[u]) :
        (Answering(u, q) /\ Correct(last'.text, q) /\ last'.text # FINISH)
        => SucceededEffect(u, q)]_vars

\* A correct answer typed with other case and surrounding blanks.
C7_Witness ==
    /\ last.op = "respond"
    /\ last.outcome = "ok"
    /\ last.text = <<" ", "A", " ">>
    /\ last.reply.sent
    /\ last.reply.paras[1] = Para("CORRECT_TRANSLATION", <<>>, <<<<"k", "a">>, <<"a">>>>)
    /\ ProgressOf(progress, last.user).succeeded_count > 0

\* C8: an input that is neither the correct answer nor a learning command
\* adds 1 to failed_count, keeps every question record, and shows the same
\* question again, which is still the next one.
C8_WrongAnswer ==
    [][\A u \in Users : \A q \in NextOf(questions[u]) :
        (/\ Answering(u, q)
         /\ last'.text \notin {SKIP, DELETE, FINISH}
         /\ ~Correct(last'.text, q))
        => /\ questions'[u] = questions[u]
           /\ ProgressOf(progress', u) =
                 [ProgressOf(progress, u) EXCEPT !.failed_count = @ + 1]
           /\ last'.reply =
                 add_paragraph_before(QuestionReply(q),
                                      Para("WRONG_TRANSLATION", <<>>, <<>>))
           /\ NextOf(questions'[u]) = {q}]_vars

SkippedEffect(u, q) ==
    /\ questions'[u] = questions[u] \ {q}
    /\ ProgressOf(progress', u) =
          [ProgressOf(progress, u) EXCEPT !.skipped_count = @ + 1]
    /\ userCards' = userCards

\* C9 as stated: the Skip command deletes exactly the pending question and
\* adds 1 to skipped_count only; the cards stay.
C9_Original ==
    [][\A u \in Users : \A q \in NextOf(questions[u]) :
        (Answering(u, q) /\ last'.text = SKIP) => SkippedEffect(u, q)]_vars

\* C9: the Skip command, when the answer's en text is not the lowercased
\* Skip label, deletes exactly the pending question and adds 1 to
\* skipped_count, leaving succeeded_count, failed_count and the cards.
C9_Skip ==
    [][\A u \in Users : \A q \in NextOf(questions[u]) :
        (Answering(u, q) /\ last'.text = SKIP /\ ~Correct(SKIP, q))
        => SkippedEffect(u, q)]_vars

C9_Witness ==
    /\ last.op = "respond"
    /\ last.outcome = "ok"
    /\ last.text = SKIP
    /\ last.reply.sent
    /\ last.reply.paras[1] = Para("SKIPPED_TRANSLATION", <<>>, <<>>)
    /\ ProgressOf(progress, last.user).skipped_count > 0

DeletedEffect(u, q) ==
    /\ questions'[u] = questions[u] \ {q}
    /\ userCards'[u] = userCards[u] \ {q.answer_card}
    /\ Cardinality(userCards'[u]) = Cardinality(userCards[u]) - 1

\* The step completes the add-card dialogue of u for a pair with c's ru text.
AddsPair(u, c) ==
    /\ userState[u] = "adding_card"
    /\ pending[u] # <<>>
    /\ last'.op = "respond" /\ last'.user = u
    /\ c.ru = pending[u][1]

\* The step is the first /start of an identity without a record.
SeedsDefaults(u) == userState[u] = "none" /\ last'.op = "start" /\ last'.user = u

\* A session just started holds cards of the user's collection only.
SessionOverOwnCards ==
    \A u \in Users :
        SessionJustStarted(u) =>
            \A q \in questions[u] :
                /\ q.answer_card \in userCards[u]
                /\ \A i \in 1..Len(q.distractors) :
                      q.distractors[i].card \in userCards[u]

\* C10 as stated: the Delete command deletes the pending question and
\* removes its answer card, the card count drops by one, and the card
\* comes back to the collection, and so to a later session, only when the
\* user adds the pair again (a record created anew is seeded anew).
C10_Original ==
    /\ [][\A u \in Users :
            /\ \A q \in NextOf(questions[u]) :
                  (Answering(u, q) /\ last'.text = DELETE) => DeletedEffect(u, q)
            /\ \A c \in userCards'[u] \ userCards[u] :
                  AddsPair(u, c) \/ SeedsDefaults(u)]_vars
    /\ []SessionOverOwnCards

\* C10: the Delete command, when the answer's en text is not the lowercased
\* Delete label, deletes the pending question and removes its answer card,
\* the card count drops by one, and a card comes back to the collection,
\* and so to a later session, only when the user adds the pair again (a
\* record created anew is seeded anew).
C10_Delete ==
    /\ [][\A u \in Users :
            /\ \A q \in NextOf(questions[u]) :
                  (Answering(u, q) /\ last'.text = DELETE /\ ~Correct(DELETE, q))
                  => DeletedEffect(u, q)
            /\ \A c \in userCards'[u] \ userCards[u] :
                  AddsPair(u, c) \/ SeedsDefaults(u)]_vars
    /\ []SessionOverOwnCards

C10_Witness ==
    /\ last.op = "respond"
    /\ last.outcome = "ok"
    /\ last.text = DELETE
    /\ last.reply.sent
    /\ last.reply.paras[1].msg = "DELETED_RU_EN_CARD"
    /\ Cardinality(userCards[last.user]) = CHOICE_COUNT - 1

\* The FINISHED_LEARNING paragraph for the counters p.
FinishedPara(p) ==
    Para("FINISHED_LEARNING",
         <<p.succeeded_count, p.skipped_count, p.failed_count>>, <<>>)

HasPara(reply, para) == \E i \in 1..Len(reply.paras) : reply.paras[i] = para

\* The step is a respond turn of u that the storage did not cut short.
RespondedFree(u) == last'.op = "respond" /\ last'.user = u /\ last'.cause # "storage"

\* C11: a learning turn that is the Finish command, or after which no
\* question remains, leaves no question of the user, sets the state to
\* MAIN_MENU and reports the stored counters; the Finish command, and a
\* turn that found no question, change no counter.
C11_Finish ==
    [][\A u \in Users :
        (/\ userState[u] = "learning"
         /\ Responded(u) /\ last'.outcome = "ok"
         /\ (last'.text = FINISH \/ questions'[u] = {}))
        => /\ questions'[u] = {}
           /\ userState'[u] = "main_menu"
           /\ HasPara(last'.reply, FinishedPara(ProgressOf(progress', u)))
           /\ (last'.text = FINISH \/ questions[u] = {})
                 => ProgressOf(progress', u) = ProgressOf(progress, u)]_vars

\* An explicit Finish after one success, with cards left unanswered.
C11_Witness ==
    /\ last.op = "respond"
    /\ last.outcome = "ok"
    /\ last.text = FINISH
    /\ userState[last.user] = "main_menu"
    /\ questions[last.user] = {}
    /\ last.reply.sent
    /\ last.reply.paras[1] = FinishedPara(ProgressOf(progress, last.user))
    /\ ProgressOf(progress, last.user).succeeded_count = 1
    /\ ProgressOf(progress, last.user).skipped_count = 0
    /\ Cardinality(userCards[last.user]) >= CHOICE_COUNT

\* C12: in ADDING_CARD a valid source word is stored normalized as the
\* pending record, and a valid target word then puts the card of the two
\* normalized texts into the user's collection, clears the pending record,
\* sets the state to MAIN_MENU and reports the size of the collection.
C12_AddCard ==
    [][\A u \in Users :
        /\ (/\ userState[u] = "adding_card" /\ pending[u] = <<>>
            /\ RespondedFree(u) /\ PreprocessOk(last'.text))
           => /\ pending'[u] = <<PreprocessUserWord(last'.text)>>
              /\ userState'[u] = "adding_card"
        /\ (/\ userState[u] = "adding_card" /\ pending[u] # <<>>
            /\ RespondedFree(u) /\ PreprocessOk(last'.text))
           => /\ userCards'[u] =
                    userCards[u] \cup {Card(pending[u][1], PreprocessUserWord(last'.text))}
              /\ pending'[u] = <<>>
              /\ userState'[u] = "main_menu"
              /\ HasPara(last'.reply,
                         Para("NEW_LEARNING_COUNT",
                              <<Cardinality(userCards'[u])>>, <<>>))]_vars

\* C13: no word is stored twice with the same (text, language) and no
\* card twice with the same pair of words; a valid target word that
\* completes a pair already stored adds the user's association and no
\* word or card record.
C13_NoDuplicates ==
    /\ [](/\ \A w \in BagToSet(words) : CopiesIn(w, words) = 1
          /\ \A c \in BagToSet(cards) : CopiesIn(c, cards) = 1)
    /\ [][\A u \in Users :
            (/\ userState[u] = "adding_card" /\ pending[u] # <<>>
             /\ Responded(u) /\ last'.outcome = "ok"
             /\ PreprocessOk(last'.text)
             /\ BagIn(Card(pending[u][1], PreprocessUserWord(last'.text)), cards))
            => /\ words' = words
               /\ cards' = cards
               /\ userCards'[u] =
                     userCards[u] \cup
                        {Card(pending[u][1], PreprocessUserWord(last'.text))}]_vars

\* Both users hold the same added card, stored once.
C13_Witness ==
    /\ \A u \in Users : Card(<<"x">>, <<"a">>) \in userCards[u]
    /\ CopiesIn(Card(<<"x">>, <<"a">>), cards) = 1
    /\ CopiesIn(Word(<<"x">>, RU), words) = 1
    /\ last.op = "respond" /\ last.outcome = "ok"
    /\ HasPara(last.reply, Para("ADDED_RU_EN_CARD", <<>>, <<<<"x">>, <<"a">>>>))

\* C14: a /start of an identity that has a user record adds no card to the
\* user's collection and stores no word or card, whether or not the turn
\* completes.
C14_StartIdempotent ==
    [][\A u \in Users :
        (userState[u] # "none" /\ last'.op = "start" /\ last'.user = u)
        => /\ userCards' = userCards
           /\ words' = words
           /\ cards' = cards]_vars

\* A repeated /start of a user who holds fewer cards than the default set.
C14_Witness ==
    /\ last.op = "start"
    /\ last.outcome = "ok"
    /\ HasPara(last.reply, Para("GREETING_OLD_USER", <<>>, <<>>))
    /\ Cardinality(userCards[last.user]) < Len(DefaultCards)

MainMenuReply(greeting) ==
    OutputMessage(<<Para(greeting, <<>>, <<>>), Para("SELECT_MAIN_MENU", <<>>, <<>>)>>,
                  <<LEARN, ADD_CARD>>, 1)

\* C15: after a /start turn that completed, the user's state is MAIN_MENU
\* and the reply is a greeting followed by the main menu and its two
\* buttons.
C15_StartMainMenu ==
    (last.op = "start" /\ last.outcome = "ok")
    => /\ userState[last.user] = "main_menu"
       /\ last.reply \in {MainMenuReply("GREETING_NEW_USER"),
                          MainMenuReply("GREETING_OLD_USER")}

\* A /start sent in the middle of a learning session.
C15_Witness ==
    /\ last.op = "start"
    /\ last.outcome = "ok"
    /\ userState[last.user] = "main_menu"
    /\ questions[last.user] # {}
    /\ last.reply = MainMenuReply("GREETING_OLD_USER")

ClearReply(msg) == OutputMessage(<<Para(msg, <<>>, <<>>)>>, <<>>, 0)

\* C16: a /clear turn that completed leaves no user row and no card,
\* question, progress or pending row of the user and replies DELETED_USER;
\* for an identity without a row it changes nothing and replies
\* DELETED_NOT_EXISTING; the free-text turn right after a /clear is
\* answered with USER_NOT_STARTED.
C16_Clear ==
    [][\A u \in Users :
        /\ (last'.op = "clear" /\ last'.user = u /\ last'.outcome = "ok")
           => IF userState[u] # "none"
              THEN /\ userState'[u] = "none"
                   /\ userCards'[u] = {}
                   /\ questions'[u] = {}
                   /\ progress'[u] = <<>>
                   /\ pending'[u] = <<>>
                   /\ last'.reply = ClearReply("DELETED_USER")
              ELSE /\ dbVars' = dbVars
                   /\ last'.reply = ClearReply("DELETED_NOT_EXISTING")
        /\ (/\ last.op = "clear" /\ last.user = u /\ last.outcome = "ok"
            /\ Responded(u))
           => last'.reply = UserNotStartedReply]_vars

\* A /clear of a user who had started learning: the words stay stored.
C16_Witness ==
    /\ last.op = "clear"
    /\ last.outcome = "ok"
    /\ last.reply = ClearReply("DELETED_USER")
    /\ userState[last.user] = "none"
    /\ BagIn(Word(<<"x">>, RU), words)

\* C17: a turn that leaves MAIN_MENU for another state persists a storage
\* effect of that state's start (questions, counters, pending record) only
\* together with or after the new state: whatever the point at which the
\* turn is cut short, changed rows of the user come with the new state,
\* except in the completed return to the menu for lack of cards.
C17_StateFirst ==
    [][\A u \in Users :
        (/\ userState[u] = "main_menu"
         /\ last'.op = "respond" /\ last'.user = u
         /\ \/ questions'[u] # questions[u]
            \/ progress'[u] # progress[u]
            \/ pending'[u] # pending[u])
        => \/ userState'[u] \in {"learning", "adding_card"}
           \/ /\ last'.outcome = "ok"
              /\ userState'[u] = "main_menu"
              /\ last'.reply.paras[1].msg = "NO_LEARNING_CARDS"]_vars

\* The turn was cut short after the LEARNING state was committed and
\* before the first start of a session had written anything.
C17_Witness ==
    /\ last.op = "respond"
    /\ last.outcome = "model_error"
    /\ userState[last.user] = "learning"
    /\ questions[last.user] = {}
    /\ progress[last.user] = <<>>

\* C18: in MAIN_MENU an input that is not one of the two labels gets no
\* reply and changes nothing.
C18_MenuIgnores ==
    [][\A u \in Users :
        (/\ userState[u] = "main_menu"
         /\ Responded(u)
         /\ last'.text \notin {LEARN, ADD_CARD})
        => /\ last'.outcome = "ok"
           /\ last'.reply = NoReply
           /\ dbVars' = dbVars]_vars

\* The Learn label typed in lower case.
C18_Witness ==
    /\ last.op = "respond"
    /\ last.outcome = "ok"
    /\ last.text = Lower(LEARN)
    /\ last.reply = NoReply
    /\ userState[last.user] = "main_menu"

\* C19: in ADDING_CARD without a pending record a too long source word
\* changes nothing and is answered with the warning and the source-word
\* prompt.
C19_SourceTooLong ==
    [][\A u \in Users :
        (/\ userState[u] = "adding_card" /\ pending[u] = <<>>
         /\ RespondedFree(u)
         /\ ~PreprocessOk(last'.text))
        => /\ last'.outcome = "ok"
           /\ dbVars' = dbVars
           /\ last'.reply =
                 OutputMessage(<<WordTooLong, Para("ENTER_RU_WORD", <<>>, <<>>)>>,
                               <<>>, 0)]_vars

C19_Witness ==
    /\ last.op = "respond"
    /\ last.outcome = "ok"
    /\ last.text = TooLongText
    /\ last.reply.sent
    /\ last.reply.paras = <<WordTooLong, Para("ENTER_RU_WORD", <<>>, <<>>)>>
    /\ userState[last.user] = "adding_card"
    /\ pending[last.user] = <<>>

TargetTooLongReply ==
    OutputMessage(<<WordTooLong, Para("ENTER_EN_WORD", <<>>, <<>>)>>, <<>>, 0)

\* C20: in ADDING_CARD with a pending record a too long target word
\* changes nothing and is answered with the warning and the target-word
\* prompt; a valid target word in the next turn puts the card of the
\* pending source word into the collection, clears the pending record and
\* sets the state to MAIN_MENU.
C20_TargetTooLong ==
    [][\A u \in Users :
        /\ (/\ userState[u] = "adding_card" /\ pending[u] # <<>>
            /\ RespondedFree(u)
            /\ ~PreprocessOk(last'.text))
           => /\ last'.outcome = "ok"
              /\ dbVars' = dbVars
              /\ last'.reply = TargetTooLongReply
        /\ (/\ last.op = "respond" /\ last.user = u
            /\ last.reply = TargetTooLongReply
            /\ userState[u] = "adding_card" /\ pending[u] # <<>>
            /\ RespondedFree(u)
            /\ PreprocessOk(last'.text))
           => /\ Card(pending[u][1], PreprocessUserWord(last'.text)) \in userCards'[u]
              /\ pending'[u] = <<>>
              /\ userState'[u] = "main_menu"]_vars

\* C21: in every reachable state each user has at most one pending add-card
\* record and at most one learning-progress record.
C21_OneRecord ==
    \A u \in Users : Len(pending[u]) <= 1 /\ Len(progress[u]) <= 1

\* A user with a pending record and a progress record whose counters have
\* been written by a session.
C21_Witness ==
    \E u \in Users :
        /\ Len(pending[u]) = 1
        /\ Len(progress[u]) = 1
        /\ progress[u][1].failed_count > 0

\* The turn taken by this step answers the message `text` of u.
Delivered(u, text) == last'.user = u /\ last'.text = text /\ last'.op # "init"

\* C22: a /start or /clear message sent by a user in ADDING_CARD or LEARNING
\* is handled by the command's handler: it is never judged as a word or as
\* an answer, so it creates no word, card, question or pending record and
\* changes no counter (/clear removes the records with the user).
C22_CommandsFirst ==
    [][\A u \in Users :
        /\ userState[u] \in {"adding_card", "learning"}
        /\ Delivered(u, CommandText(START)) \/ Delivered(u, CommandText(CLEAR))
        => /\ last'.op = IF last'.text = CommandText(START) THEN "start" ELSE "clear"
           /\ words' = words
           /\ cards' = cards
           /\ userCards'[u] \subseteq userCards[u]
           /\ questions'[u] \subseteq questions[u]
           /\ pending'[u] \in {pending[u], <<>>}
           /\ progress'[u] \in {progress[u], <<>>}]_vars

\* /start has been handled for a user whose learning session was under way:
\* the questions of the session are still stored.
C22_Witness ==
    \E u \in Users :
        /\ last.op = "start"
        /\ last.user = u
        /\ last.text = CommandText(START)
        /\ last.outcome = "ok"
        /\ questions[u] # {}
        /\ userState[u] = "main_menu"

\* C23: one message is handled to its end before the next is accepted: at
\* no time do two worker threads run a handler.
C23_OneAtATime ==
    Cardinality({w \in Workers : workers[w].busy}) <= 1

\* The reply ends with the presentation of question q: its ru text and its
\* keyboard.
Shows(reply, q) ==
    /\ reply.sent
    /\ reply.paras # <<>>
    /\ reply.paras[Len(reply.paras)] = Para("SELECT_TRANSLATION", <<>>, <<q.answer_card.ru>>)
    /\ reply.buttons = GetKeyboard(q)

\* C24: questions are taken in ascending order.  A respond turn in LEARNING
\* removes no question but the remaining one with the smallest order
\* (or all of them, when the session finishes), and every respond turn
\* that ends in LEARNING shows the remaining question with the smallest
\* order.
C24_AscendingOrder ==
    [][\A u \in Users :
        Responded(u) /\ last'.outcome = "ok" =>
            /\ userState[u] = "learning" =>
                  \/ questions'[u] = questions[u]
                  \/ \E q \in NextOf(questions[u]) : questions'[u] = questions[u] \ {q}
                  \/ questions'[u] = {} /\ userState'[u] = "main_menu"
            /\ userState'[u] = "learning" =>
                  /\ questions'[u] # {}
                  /\ \A q \in questions'[u] :
                        Shows(last'.reply, q) <=> q \in NextOf(questions'[u])]_vars

\* The second question of a session is shown after the first was answered.
C24_Witness ==
    \E u \in Users :
        /\ last.op = "respond"
        /\ last.user = u
        /\ last.outcome = "ok"
        /\ userState[u] = "learning"
        /\ \E q \in questions[u] :
              /\ q.order = 1
              /\ q \in NextOf(questions[u])
              /\ Shows(last.reply, q)
        /\ progress[u] # <<>> /\ progress[u][1].succeeded_count = 1

\* The sequence s without its element at index i.
Without(s, i) == SubSeq(s, 1, i - 1) \o SubSeq(s, i + 1, Len(s))

\* The keyboard kb is the one of question q: CHOICE_COUNT answer labels,
\* the answer's en text at answer_position and nowhere else, the
\* distractors' en texts in stored order around it, then the three
\* learning commands.
KeyboardOf(kb, q) ==
    LET answers == SubSeq(kb, 1, CHOICE_COUNT)
    IN  /\ Len(kb) = CHOICE_COUNT + Len(LearningMenuLabels)
        /\ answers[q.answer_position + 1] = q.answer_card.en
        /\ Cardinality({i \in 1..CHOICE_COUNT : answers[i] = q.answer_card.en}) = 1
        /\ Without(answers, q.answer_position + 1) =
              [i \in 1..Len(q.distractors) |-> q.distractors[i].card.en]
        /\ \A i \in 1..Len(q.distractors) : q.distractors[i].order = i - 1
        /\ SubSeq(kb, CHOICE_COUNT + 1, Len(kb)) = <<SKIP, DELETE, FINISH>>

\* C25: every stored question has its answer position in
\* 0..CHOICE_COUNT-1 and its keyboard has the shape above; the keyboard
\* sent with a question shown is that keyboard.
C25_Keyboard ==
    \A u \in Users :
        /\ \A q \in questions[u] :
              /\ q.answer_position \in 0..(CHOICE_COUNT - 1)
              /\ KeyboardOf(GetKeyboard(q), q)
        /\ (last.op = "respond" /\ last.user = u /\ last.outcome = "ok"
              /\ userState[u] = "learning")
           => \E q \in questions[u] :
                 /\ KeyboardOf(last.reply.buttons, q)
                 /\ last.reply.row_size = 2

\* A session whose stored questions have the answer at the first and at
\* the last position, the first of which is being shown.
C25_Witness ==
    \E u \in Users :
        /\ SessionJustStarted(u)
        /\ \E q1, q2 \in questions[u] :
              /\ q1.answer_position = 0
              /\ q2.answer_position = CHOICE_COUNT - 1
              /\ last.reply.buttons = GetKeyboard(q1)

\* The feedback paragraph of a turn that judged `text` against q.
Feedback(text, q) ==
    IF Correct(text, q)
    THEN Para("CORRECT_TRANSLATION", <<>>, <<q.answer_card.ru, q.answer_card.en>>)
    ELSE IF text = SKIP THEN Para("SKIPPED_TRANSLATION", <<>>, <<>>)
    ELSE Para("DELETED_RU_EN_CARD", <<>>, <<q.answer_card.ru, q.answer_card.en>>)

EntersLearning(u) ==
    /\ userState[u] = "main_menu"
    /\ Responded(u)
    /\ last'.text = LEARN
    /\ last'.outcome = "ok"

\* C27: every entry into Learning stores the three counters as zero and
\* leaves no question of an earlier session: the questions after the turn
\* are those of the new session, one per card, and the first one is shown
\* with all counters at zero.  When the start is given up for lack of
\* cards the counters are zero and no question is left either.
C27_ResetOnEntry ==
    [][\A u \in Users :
        EntersLearning(u) =>
            LET N == Cardinality(userCards[u])
            IN  /\ progress'[u] = <<NewLearningProgress>>
                /\ N >= CHOICE_COUNT =>
                      /\ userState'[u] = "learning"
                      /\ {q.order : q \in questions'[u]} = 0..(N - 1)
                      /\ {q.answer_card : q \in questions'[u]} = userCards[u]
                      /\ Cardinality(questions'[u]) = N
                      /\ \E q \in NextOf(questions'[u]) : Shows(last'.reply, q)
                /\ N < CHOICE_COUNT =>
                      /\ userState'[u] = "main_menu"
                      /\ questions'[u] = {}]_vars

\* A start given up for lack of cards, with the counters stored as zero.
C27_Witness ==
    \E u \in Users :
        /\ last.op = "respond"
        /\ last.user = u
        /\ last.text = LEARN
        /\ last.outcome = "ok"
        /\ userState[u] = "main_menu"
        /\ progress[u] = <<NewLearningProgress>>
        /\ questions[u] = {}
        /\ Cardinality(userCards[u]) < CHOICE_COUNT

\* The stored questions of u are those of a whole session: one per card.
WholeSession(Q, S) ==
    /\ Cardinality(Q) = Cardinality(S)
    /\ {q.answer_card : q \in Q} = S
    /\ {q.order : q \in Q} = 0..(Cardinality(S) - 1)

\* C28: the questions of a session are stored, all of them, before the
\* first is shown.  A turn that takes u from MAIN_MENU into LEARNING stores
\* either nothing of the new session (and then it shows no question) or one
\* question per card; a reply that shows a question is sent only with the
\* whole session stored.
C28_StoredBeforeShown ==
    [][\A u \in Users :
        (/\ userState[u] = "main_menu"
         /\ last'.op = "respond" /\ last'.user = u
         /\ userState'[u] = "learning")
        => /\ \/ /\ questions'[u] = questions[u]
                 /\ last'.outcome \in {"model_error", "hang"}
              \/ WholeSession(questions'[u], userCards[u])
           /\ (\E q \in questions'[u] : Shows(last'.reply, q))
                 => WholeSession(questions'[u], userCards[u])
           /\ last'.outcome = "ok"
                 => \E q \in NextOf(questions'[u]) : q.order = 0 /\ Shows(last'.reply, q)]_vars

\* The first question of a stored session is shown after the plan line.
C28_Witness ==
    \E u \in Users :
        /\ SessionJustStarted(u)
        /\ WholeSession(questions[u], userCards[u])
        /\ last.reply.paras[1] =
              Para("PLAN_LEARNING_COUNT", <<Cardinality(userCards[u])>>, <<>>)
        /\ \E q \in questions[u] : q.order = 0 /\ Shows(last.reply, q)

\* C29: in LEARNING with a pending question, an input longer than
\* MAX_LENGTH is judged as a wrong answer: the turn ends normally,
\* failed_count grows by 1, the question is kept and shown again after the
\* WRONG_TRANSLATION line, and no too-long warning or error message is sent.
C29_TooLongAnswer ==
    [][\A u \in Users : \A q \in NextOf(questions[u]) :
        (/\ Answering(u, q)
         /\ last'.cause = "none"
         /\ Len(Strip(last'.text)) > MAX_LENGTH)
        => /\ last'.outcome = "ok"
           /\ ProgressOf(progress', u).failed_count =
                 ProgressOf(progress, u).failed_count + 1
           /\ q \in questions'[u]
           /\ Shows(last'.reply, q)
           /\ last'.reply.paras[1] = Para("WRONG_TRANSLATION", <<>>, <<>>)
           /\ ~HasPara(last'.reply, WordTooLong)
           /\ ~HasPara(last'.reply, Para("BOT_ERROR", <<>>, <<>>))]_vars

EnterRuWordReply == OutputMessage(<<Para("ENTER_RU_WORD", <<>>, <<>>)>>, <<>>, 0)

\* C30: a turn that takes u from MAIN_MENU into ADDING_CARD leaves no
\* pending record, whatever was stored before, and asks for the source
\* word; the next input of u that is not too long is then stored as the
\* pending source word and creates no card.
C30_FreshAddCard ==
    [][\A u \in Users :
        /\ (/\ userState[u] = "main_menu"
            /\ Responded(u) /\ last'.outcome = "ok"
            /\ userState'[u] = "adding_card")
           => /\ last'.text = ADD_CARD
              /\ pending'[u] = <<>>
              /\ last'.reply = EnterRuWordReply
        /\ (/\ userState[u] = "adding_card"
            /\ last.op = "respond" /\ last.user = u /\ last.text = ADD_CARD
            /\ last.outcome = "ok" /\ last.reply = EnterRuWordReply
            /\ Responded(u) /\ last'.outcome = "ok"
            /\ PreprocessOk(last'.text))
           => /\ pending'[u] = <<PreprocessUserWord(last'.text)>>
              /\ userCards' = userCards
              /\ userState'[u] = "adding_card"
              /\ last'.reply = OutputMessage(<<Para("ENTER_EN_WORD", <<>>, <<>>)>>, <<>>, 0)]_vars

\* The Add-Card state has just been entered with no pending record by a
\* user who left an earlier flow after its source word: the word is
\* stored and belongs to no card.
C30_Witness ==
    \E u \in Users :
        /\ last.op = "respond" /\ last.user = u /\ last.text = ADD_CARD
        /\ last.outcome = "ok"
        /\ userState[u] = "adding_card"
        /\ pending[u] = <<>>
        /\ BagIn(Word(<<"x">>, RU), words)
        /\ \A c \in BagToSet(cards) : c.ru # <<"x">>

\* The last turn was a turn of u that came to its end without a storage
\* failure.
Completed(u) ==
    /\ last.op # "init"
    /\ last.user = u
    /\ last.outcome \notin {"model_error", "hang"}

\* C31: at the end of every turn that completed without a storage failure,
\* a user whose state is not LEARNING has no question record.
C31_NoQuestionsOutside ==
    \A u \in Users :
        (Completed(u) /\ userState[u] # "learning") => questions[u] = {}

FeedbackMessages ==
    {"CORRECT_TRANSLATION", "SKIPPED_TRANSLATION", "DELETED_RU_EN_CARD",
     "WRONG_TRANSLATION"}

\* C32: a user left in LEARNING by a turn that completed without a storage
\* failure has a question, so the next respond turn of that user whose
\* input is not Finish judges the input: a reply it sends begins with one
\* of the four feedback lines, never with the statistics of a session
\* found empty.
C32_QuestionInLearning ==
    [][\A u \in Users :
        (Completed(u) /\ userState[u] = "learning") =>
            /\ questions[u] # {}
            /\ (Responded(u) /\ last'.text # FINISH /\ last'.reply.sent)
                 => last'.reply.paras[1].msg \in FeedbackMessages]_vars

\* A wrong answer has been judged and the user is still in LEARNING.
C32_Witness ==
    \E u \in Users :
        /\ Completed(u)
        /\ last.op = "respond"
        /\ userState[u] = "learning"
        /\ last.reply.sent
        /\ last.reply.paras[1].msg = "WRONG_TRANSLATION"
        /\ Cardinality(questions[u]) = 1

\* What a session holds of its N questions: those counted as succeeded or
\* skipped and those remaining, less the cards of the collection.  A card
\* leaves the collection in a session only together with its question, so
\* the value is 0 exactly when succeeded + skipped + deleted + remaining
\* is N, the size of the collection at the start.
Balance(p, Q, S) == p.succeeded_count + p.skipped_count + Cardinality(Q) - Cardinality(S)

\* C33: counter conservation.  A session starts with N questions for N
\* cards and zero counters; every completed learning turn that is not
\* Finish keeps the balance, adds at most 1 to one of succeeded_count and
\* skipped_count and only together with the removal of the judged
\* question, and removes a card only together with that question; so at
\* a finish by exhaustion succeeded + skipped is N less the deletions.
C33_Conservation ==
    [][\A u \in Users :
        LET p == ProgressOf(progress, u)
            p1 == ProgressOf(progress', u)
            ds == p1.succeeded_count - p.succeeded_count
            dk == p1.skipped_count - p.skipped_count
        IN  /\ EntersLearning(u) /\ userState'[u] = "learning"
               => /\ Balance(p1, questions'[u], userCards'[u]) = 0
                  /\ p1.succeeded_count = 0 /\ p1.skipped_count = 0
            /\ \A q \in NextOf(questions[u]) :
                  (Answering(u, q) /\ last'.outcome = "ok" /\ last'.text # FINISH)
                  => /\ Balance(p1, questions'[u], userCards'[u]) =
                          Balance(p, questions[u], userCards[u])
                     /\ ds \in {0, 1} /\ dk \in {0, 1} /\ ds + dk <= 1
                     /\ ds + dk = 1 =>
                          questions'[u] = questions[u] \ {q} /\ userCards' = userCards
                     /\ userCards' # userCards =>
                          /\ userCards'[u] = userCards[u] \ {q.answer_card}
                          /\ questions'[u] = questions[u] \ {q}
                          /\ last'.text = DELETE
                     /\ questions'[u] \in {questions[u], questions[u] \ {q}}]_vars

\* A session finished by exhaustion after a Delete: succeeded + skipped is
\* the size of the collection, one less than the session had questions.
C33_Witness ==
    \E u \in Users :
        /\ Completed(u) /\ last.op = "respond" /\ last.text # FINISH
        /\ userState[u] = "main_menu"
        /\ last.reply.sent
        /\ last.reply.paras[1].msg \in {"CORRECT_TRANSLATION", "SKIPPED_TRANSLATION"}
        /\ Cardinality(userCards[u]) = CHOICE_COUNT - 1
        /\ Balance(ProgressOf(progress, u), questions[u], userCards[u]) = 0
        /\ ProgressOf(progress, u).succeeded_count > 0
        /\ ProgressOf(progress, u).skipped_count > 0

\* The input is the correct answer to q, Skip or Delete.
Consuming(text, q) == Correct(text, q) \/ text \in {SKIP, DELETE}

\* The questions of u do not grow in number in a learning turn, and a
\* completed turn with a consuming input (the Finish command counted among
\* them or not) removes exactly one, ending the session in MAIN_MENU
\* exactly when it was the last.
Decreases(u, finishToo) ==
    /\ (userState[u] = "learning" /\ last'.op = "respond" /\ last'.user = u)
          => Cardinality(questions'[u]) <= Cardinality(questions[u])
    /\ \A q \in NextOf(questions[u]) :
          (/\ Answering(u, q) /\ last'.outcome = "ok"
           /\ Consuming(last'.text, q)
           /\ finishToo \/ last'.text # FINISH)
          => /\ Cardinality(questions'[u]) = Cardinality(questions[u]) - 1
             /\ questions'[u] = {} <=> userState'[u] = "main_menu"

\* The step is a completed learning turn of u with a consuming input.
ConsumeStep(u, finishToo) ==
    \E q \in NextOf(questions[u]) :
        /\ Answering(u, q) /\ last'.outcome = "ok"
        /\ Consuming(last'.text, q)
        /\ finishToo \/ last'.text # FINISH

\* A user who sends consuming inputs again and again is out of LEARNING
\* again and again: no session takes infinitely many of them.
SessionEnds(finishToo) ==
    \A u \in Actors :
        ([]<><<ConsumeStep(u, finishToo)>>_vars) => []<>(userState[u] # "learning")

\* C34 as stated: the number of questions never grows during a session,
\* every completed turn whose input is the correct answer, Skip or Delete
\* lowers it by exactly one, and a session ends after finitely many such
\* inputs.
C34_Original ==
    /\ [][\A u \in Users : Decreases(u, TRUE)]_vars
    /\ SessionEnds(TRUE)

\* C34, amended: the same for every such input other than the Finish
\* command, which ends the session at once also when its lowercased label
\* is the answer.
C34_Decreasing ==
    /\ [][\A u \in Users : Decreases(u, FALSE)]_vars
    /\ SessionEnds(FALSE)

\* Two questions of a session have been consumed, one answered and one
\* skipped, and the session goes on.
C34_Witness ==
    \E u \in Users :
        /\ Completed(u) /\ last.op = "respond"
        /\ userState[u] = "learning"
        /\ ProgressOf(progress, u).succeeded_count = 1
        /\ ProgressOf(progress, u).skipped_count = 1
        /\ Cardinality(questions[u]) = Cardinality(userCards[u]) - 2

\* C35: a turn of one user, whatever its end, leaves every other user's
\* state, collection, questions with their distractors, counters and
\* pending record as they were.
C35_OtherUsersUnchanged ==
    [][\A a, b \in Users :
        (a # b /\ last'.user = a /\ last'.op # "init")
        => /\ userState'[b] = userState[b]
           /\ userCards'[b] = userCards[b]
           /\ questions'[b] = questions[b]
           /\ progress'[b] = progress[b]
           /\ pending'[b] = pending[b]]_vars

\* One user has deleted, in a session, a card that the other user holds
\* and has a question and a distractor for.
C35_Witness ==
    \E a, b \in Users :
        /\ a # b
        /\ last.user = a /\ last.op = "respond" /\ last.text = DELETE
        /\ last.outcome = "ok"
        /\ \E c \in userCards[b] \ userCards[a] :
              /\ \E q \in questions[b] : q.answer_card = c
              /\ \E q \in questions[b] : \E i \in 1..Len(q.distractors) :
                    q.distractors[i].card = c
        /\ userState[b] = "learning"

\* The frame of a Delete turn of u with q pending: the counters are as they
\* were, the other questions are kept as they were, distractors and order
\* included, and while one remains u stays in LEARNING and the reply ends
\* with the remaining question of the smallest order.
DeleteFrame(u, q) ==
    /\ progress'[u] = progress[u]
    /\ questions'[u] = questions[u] \ {q}
    /\ questions'[u] # {} =>
          /\ userState'[u] = "learning"
          /\ \E n \in NextOf(questions'[u]) : Shows(last'.reply, n)

\* C36 as stated: every completed Delete turn in LEARNING has the frame
\* above.
C36_Original ==
    [][\A u \in Users : \A q \in NextOf(questions[u]) :
        (Answering(u, q) /\ last'.outcome = "ok" /\ last'.text = DELETE)
        => DeleteFrame(u, q)]_vars

\* C36: a completed Delete turn in LEARNING, whose label is not itself the
\* correct answer to the pending question, changes no counter, leaves the
\* remaining questions with their distractors and order as they were, and
\* shows the next remaining question in the same turn, also when the
\* collection drops below CHOICE_COUNT.
C36_DeleteFrame ==
    [][\A u \in Users : \A q \in NextOf(questions[u]) :
        (/\ Answering(u, q) /\ last'.outcome = "ok"
         /\ last'.text = DELETE /\ ~Correct(DELETE, q))
        => DeleteFrame(u, q)]_vars

\* A Delete turn has taken the collection below CHOICE_COUNT, the deleted
\* card is still a distractor of a remaining question, and the session
\* goes on with that question shown.
C36_Witness ==
    \E u \in Users :
        /\ last.user = u /\ last.op = "respond" /\ last.text = DELETE
        /\ last.outcome = "ok"
        /\ last.reply.paras[1].msg = "DELETED_RU_EN_CARD"
        /\ userState[u] = "learning"
        /\ Cardinality(userCards[u]) < CHOICE_COUNT
        /\ \E n \in NextOf(questions[u]) :
              /\ Shows(last.reply, n)
              /\ \E i \in 1..Len(n.distractors) :
                    /\ n.distractors[i].card \notin userCards[u]
                    /\ n.distractors[i].card.ru = last.reply.paras[1].texts[1]
        /\ ProgressOf(progress, u) = NewLearningProgress

\* C37: a turn of a user in ADDING_CARD that completes, without a storage
\* failure, a pair the user already holds ends as any other addition: the
\* state is MAIN_MENU, the reply carries the success text and the unchanged
\* card count, the pending record is gone, the collection is as it was, and
\* the reply is not BOT_ERROR.
C37_DuplicatePair ==
    [][\A u \in Users :
        (/\ userState[u] = "adding_card" /\ pending[u] # <<>>
         /\ RespondedFree(u) /\ PreprocessOk(last'.text)
         /\ Card(pending[u][1], PreprocessUserWord(last'.text)) \in userCards[u])
        => /\ last'.reply # BotErrorReply
           /\ userState'[u] = "main_menu"
           /\ pending'[u] = <<>>
           /\ userCards'[u] = userCards[u]
           /\ HasPara(last'.reply,
                      Para("ADDED_RU_EN_CARD", <<>>,
                           <<pending[u][1], PreprocessUserWord(last'.text)>>))
           /\ HasPara(last'.reply,
                      Para("NEW_LEARNING_COUNT",
                           <<Cardinality(userCards[u])>>, <<>>))]_vars

\* The states that have a handler in StateManager.
HandledStates == {"main_menu", "learning", "adding_card"}

\* C38: at the end of every turn the persisted state of every existing user
\* is MAIN_MENU, LEARNING or ADDING_CARD, so that StateManager.respond has
\* a handler for it.
C38_HandledStates ==
    \A u \in Users : userState[u] # "none" => userState[u] \in HandledStates

\* C39: in a session just created every card of the user's collection is
\* the answer card of exactly one question, the orders are 0..n-1, and
\* every distractor of every question is a card of that collection.
C39_Permutation ==
    \A u \in Users :
        SessionJustStarted(u) =>
            /\ WholeSession(questions[u], userCards[u])
            /\ \A c \in userCards[u] :
                  Cardinality({q \in questions[u] : q.answer_card = c}) = 1
            /\ \A q \in questions[u] : \A i \in 1..Len(q.distractors) :
                  /\ q.distractors[i].card \in userCards[u]
                  /\ q.distractors[i].card # q.answer_card

\* A session has just been created for a user while the card table holds
\* a card that is not in the user's collection.
C39_Witness ==
    \E u \in Users :
        /\ SessionJustStarted(u)
        /\ questions[u] # {}
        /\ \E c \in BagToSet(cards) : c \notin userCards[u]

\* Worker w ends a learning turn whose input consumes the question q it
\* has read, the correct answer or Skip, after an overlapping turn of the
\* same user has come to its end and removed q.
SecondConsumer(w, q) ==
    /\ workers[w].pc = "read" /\ workers'[w].pc = "idle"
    /\ last.op = "respond" /\ last.user = workers[w].user /\ last.outcome = "ok"
    /\ workers[w].question = {q}
    /\ q \notin questions[workers[w].user]
    /\ Correct(workers[w].text, q) \/ workers[w].text = SKIP
    /\ last'.outcome = "ok"

\* C40: of two overlapping turns that consume the same pending question
\* the second adds nothing: succeeded_count + skipped_count stays as the
\* first left it and no further question is removed.
C40_CountedOnce ==
    [][\A w \in Workers : \A q \in workers[w].question :
        SecondConsumer(w, q)
        => LET u == workers[w].user
               p == ProgressOf(progress, u)
               n == ProgressOf(progress', u)
           IN  /\ n.succeeded_count + n.skipped_count
                     = p.succeeded_count + p.skipped_count
               /\ questions'[u] = questions[u]]_vars

====
